---- MODULE Spec2Model ----
(***************************************************************************)
(* Restaurant-booking MCP tool server (src/mcp_server.py).                 *)
(*                                                                         *)
(* Python strings that the code concatenates, splits or uses as dict keys  *)
(* (restaurant keys, dates, times, booking keys, reservation ids) are      *)
(* sequences of one-character strings, so that f-string formatting and     *)
(* str.replace are computed character by character.  Strings the code only *)
(* stores and compares (names, phones, addresses) are TLA+ strings.  A     *)
(* formatted message is the tuple of its literal and interpolated parts.   *)
(*                                                                         *)
(* The RESERVATIONS dict is a sequence of [k, v] entries with distinct k,  *)
(* in insertion order (the order Python's dict iterates in).               *)
(***************************************************************************)
EXTENDS Integers, Sequences, FiniteSets, TLC

\* ------------------------------------------------------------- bounds --

\* the number of calls that change the store (confirmed bookings and
\* successful cancellations) in one run
MaxWrites == 3

\* the largest window size k a SimpleWindowMemory is built with
MaxK == 2

\* the number of add_user and add_ai calls between two clear calls
MaxAdds == 5

\* the number of rows ever inserted into the conversations table
MaxConversations == 3

\* the number of rows of the messages table
MaxMessages == 4

\* the number of refresh tokens issued, those of requests in flight included
MaxTokens == 3

\* ---------------------------------------------------- python helpers --

\* str(n) for n >= 0
Digit(n) == <<"0", "1", "2", "3", "4", "5", "6", "7", "8", "9">>[n + 1]

RECURSIVE IntToStr(_)
IntToStr(n) == IF n < 10 THEN <<Digit(n)>>
               ELSE IntToStr(n \div 10) \o <<Digit(n % 10)>>

\* s.replace(old, '') for a one-character old
StrRemove(s, old) == SelectSeq(s, LAMBDA c : c # old)

\* dict operations, insertion ordered
DictKeys(d) == {d[i].k : i \in DOMAIN d}

DictHas(d, key) == \E i \in DOMAIN d : d[i].k = key

DictGet(d, key) == d[CHOOSE i \in DOMAIN d : d[i].k = key].v

\* d[key] = value: an existing key keeps its position
DictSet(d, key, value) ==
    IF DictHas(d, key)
    THEN [i \in DOMAIN d |-> IF d[i].k = key THEN [k |-> key, v |-> value] ELSE d[i]]
    ELSE Append(d, [k |-> key, v |-> value])

\* d.pop(key, None)
DictPop(d, key) == SelectSeq(d, LAMBDA e : e.k # key)

\* list(d.values())
DictValues(d) == [i \in DOMAIN d |-> d[i].v]

\* ------------------------------------------------------------ catalog --

BACHEVSKI == <<"b", "a", "c", "h", "e", "v", "s", "k", "i">>

KRYIVKA == <<"k", "r", "y", "i", "v", "k", "a">>

RESTAURANTS ==
    (BACHEVSKI :>
        [name |-> "Baczewski", city |-> "Lviv", address |-> "8 Shevska Str.",
         tables |-> << [id |-> 1, seats |-> 2], [id |-> 2, seats |-> 4],
                       [id |-> 3, seats |-> 6], [id |-> 4, seats |-> 8] >>,
         working_hours |-> [open |-> "10:00", close |-> "23:00"]])
    @@
    (KRYIVKA :>
        [name |-> "Kryivka", city |-> "Lviv", address |-> "14 Rynok Sq.",
         tables |-> << [id |-> 1, seats |-> 4], [id |-> 2, seats |-> 4],
                       [id |-> 3, seats |-> 6] >>,
         working_hours |-> [open |-> "12:00", close |-> "00:00"]])

\* -------------------------------------------------------------- state --

VARIABLES
    RESERVATIONS,   \* the module-level dict, booking keys and reservation ids
    call,           \* the last tool invocation: its name and arguments
    response,       \* what that invocation returned
    cancelled,      \* history: ids whose cancel_reservation returned
                    \* "cancelled" with no make_reservation invoked since
    writes,         \* history: the number of calls that changed the store
    race,           \* two make_reservation invocations in flight at once:
                    \* each caller's position, arguments, locals and response
    memory,         \* the SimpleWindowMemory object (src/memory.py)
    added,          \* history: the messages added to it since the last clear
    auth,           \* the refresh_tokens table and the /auth requests in
                    \* flight (src/backend/api.py, src/backend/db.py)
    chat            \* the conversations and messages tables and the last
                    \* conversation request (src/backend/api.py, src/backend/db.py)

vars == <<RESERVATIONS, call, response, cancelled, writes, race, memory, added, auth, chat>>

\* ------------------------------------------------------------- inputs --

\* Two different slots whose booking keys are the same string; the date of
\* the first holds a '-'.
Slot1 == [date |-> <<"1", "-">>, time |-> <<"2", "_", "3">>]

Slot2 == [date |-> <<"1", "-", "_", "2">>, time |-> <<"3">>]

Booking(restaurant, slot, guests, name, phone) ==
    [restaurant |-> restaurant, date |-> slot.date, time |-> slot.time,
     guests |-> guests, name |-> name, phone |-> phone]

\* arguments of make_reservation: a small party at either slot of
\* bachevski, the second with no name and no phone, a party of zero guests,
\* a party that only the last table of kryivka seats, a party no table
\* seats, and a restaurant key that is not in the catalog
BookingArgs ==
    { Booking(BACHEVSKI, Slot1, 2, "Olena", "+380501112233"),
      Booking(BACHEVSKI, Slot2, 2, "", ""),
      Booking(BACHEVSKI, Slot1, 0, "Olena", "+380501112233"),
      Booking(KRYIVKA, Slot1, 5, "Ivan", "+380670000000"),
      Booking(BACHEVSKI, Slot1, 9, "Ivan", "+380670000000"),
      Booking(<<"x">>, Slot1, 2, "Olena", "+380501112233") }

\* the guests arguments
GuestArgs == {b.guests : b \in BookingArgs}

\* arguments of check_availability: every restaurant and slot of BookingArgs,
\* for a party of 2 and a party of 5
CheckArgs ==
    {[restaurant |-> r, date |-> sl.date, time |-> sl.time, guests |-> g] :
        r \in {b.restaurant : b \in BookingArgs}, sl \in {Slot1, Slot2},
        g \in {2, 5}}

\* arguments of list_reservations
PhoneArgs == {b.phone : b \in BookingArgs}

\* the values uuid.uuid4().hex[:4].upper() takes in the model
HexSuffixes == { <<"0", "A", "1", "F">>, <<"B", "E", "E", "F">> }

\* reservation_id arguments of cancel_reservation: every key of the store
\* (reservation ids and booking keys alike), every id cancelled earlier, and
\* a string that is never a key
CancelArgs == DictKeys(RESERVATIONS) \cup cancelled \cup {<<"R", "E", "S", "-", "0">>}

\* ---------------------------------------------------------- operations --
\* The functions read and write the global RESERVATIONS; here the dict is
\* the first parameter, store, and a function that writes it returns the
\* new dict beside its return value.

_booking_key(restaurant, date, time, table_id) ==
    restaurant \o <<"_">> \o date \o <<"_">> \o time \o <<"_">> \o IntToStr(table_id)

\* mutant: a table whose seats equal the party is not offered
check_logic_strict_capacity(store, restaurant, date, time, guests) ==
    IF restaurant \notin DOMAIN RESTAURANTS
    THEN [available |-> FALSE,
          error |-> <<"Restaurant '", restaurant, "' not found">>]
    ELSE LET rest == RESTAURANTS[restaurant]
             available_tables ==
                 SelectSeq(rest.tables,
                           LAMBDA table :
                               /\ table.seats > guests
                               /\ ~DictHas(store,
                                           _booking_key(restaurant, date, time, table.id)))
         IN  [available |-> Len(available_tables) > 0,
              restaurant |-> rest.name,
              date |-> date,
              time |-> time,
              tables |-> available_tables]

\* mutant: the booking key is looked up with date and time swapped
check_logic_swapped_key(store, restaurant, date, time, guests) ==
    IF restaurant \notin DOMAIN RESTAURANTS
    THEN [available |-> FALSE,
          error |-> <<"Restaurant '", restaurant, "' not found">>]
    ELSE LET rest == RESTAURANTS[restaurant]
             available_tables ==
                 SelectSeq(rest.tables,
                           LAMBDA table :
                               /\ table.seats >= guests
                               /\ ~DictHas(store,
                                           _booking_key(restaurant, time, date, table.id)))
         IN  [available |-> Len(available_tables) > 0,
              restaurant |-> rest.name,
              date |-> date,
              time |-> time,
              tables |-> available_tables]

\* mutant: available is len(available_tables) >= 0
check_logic_always_available(store, restaurant, date, time, guests) ==
    IF restaurant \notin DOMAIN RESTAURANTS
    THEN [available |-> FALSE,
          error |-> <<"Restaurant '", restaurant, "' not found">>]
    ELSE LET rest == RESTAURANTS[restaurant]
             available_tables ==
                 SelectSeq(rest.tables,
                           LAMBDA table :
                               /\ table.seats >= guests
                               /\ ~DictHas(store,
                                           _booking_key(restaurant, date, time, table.id)))
         IN  [available |-> Len(available_tables) >= 0,
              restaurant |-> rest.name,
              date |-> date,
              time |-> time,
              tables |-> available_tables]

\* mutant: the catalog is indexed without the membership test, and
\* RESTAURANTS[restaurant] raises KeyError for a key that is not in it
check_logic_unguarded(store, restaurant, date, time, guests) ==
    IF restaurant \notin DOMAIN RESTAURANTS
    THEN [exception |-> "KeyError"]
    ELSE LET rest == RESTAURANTS[restaurant]
             available_tables ==
                 SelectSeq(rest.tables,
                           LAMBDA table :
                               /\ table.seats >= guests
                               /\ ~DictHas(store,
                                           _booking_key(restaurant, date, time, table.id)))
         IN  [available |-> Len(available_tables) > 0,
              restaurant |-> rest.name,
              date |-> date,
              time |-> time,
              tables |-> available_tables]

\* mutant: the qualifying tables are returned last table first
check_logic_reversed(store, restaurant, date, time, guests) ==
    IF restaurant \notin DOMAIN RESTAURANTS
    THEN [available |-> FALSE,
          error |-> <<"Restaurant '", restaurant, "' not found">>]
    ELSE LET rest == RESTAURANTS[restaurant]
             available_tables ==
                 SelectSeq(rest.tables,
                           LAMBDA table :
                               /\ table.seats >= guests
                               /\ ~DictHas(store,
                                           _booking_key(restaurant, date, time, table.id)))
         IN  [available |-> Len(available_tables) > 0,
              restaurant |-> rest.name,
              date |-> date,
              time |-> time,
              tables |-> [i \in DOMAIN available_tables |->
                             available_tables[Len(available_tables) + 1 - i]]]

_check_availability_logic(store, restaurant, date, time, guests) ==
    IF restaurant \notin DOMAIN RESTAURANTS
    THEN [available |-> FALSE,
          error |-> <<"Restaurant '", restaurant, "' not found">>]
    ELSE LET rest == RESTAURANTS[restaurant]
             available_tables ==
                 SelectSeq(rest.tables,
                           LAMBDA table :
                               /\ table.seats >= guests
                               /\ ~DictHas(store,
                                           _booking_key(restaurant, date, time, table.id)))
         IN  [available |-> Len(available_tables) > 0,
              restaurant |-> rest.name,
              date |-> date,
              time |-> time,
              tables |-> available_tables]

check_availability(store, restaurant, date, time, guests) ==
    _check_availability_logic(store, restaurant, date, time, guests)

\* mutant: the last qualifying table
last_table(availability) == availability.tables[Len(availability.tables)]

\* table = availability["tables"][0]
first_table(availability) == availability.tables[1]

\* mutant: the date goes into the id as it is
new_reservation_id_raw_date(date, suffix) ==
    <<"R", "E", "S", "-">> \o date \o <<"-">> \o suffix

\* f"RES-{date.replace('-', '')}-{uuid.uuid4().hex[:4].upper()}", suffix
\* being the value of uuid.uuid4().hex[:4].upper()
new_reservation_id(date, suffix) ==
    <<"R", "E", "S", "-">> \o StrRemove(date, "-") \o <<"-">> \o suffix

new_reservation(reservation_id, restaurant, date, time, guests, table, name, phone) ==
    [reservation_id |-> reservation_id,
     restaurant |-> restaurant,
     restaurant_name |-> RESTAURANTS[restaurant].name,
     address |-> RESTAURANTS[restaurant].address,
     date |-> date,
     time |-> time,
     guests |-> guests,
     table_id |-> table.id,
     name |-> name,
     phone |-> phone,
     status |-> "confirmed"]

\* mutant: the reservation is stored under its id only
insert_by_id_only(store, reservation) ==
    DictSet(store, reservation.reservation_id, reservation)

\* RESERVATIONS[_booking_key(...)] = reservation
\* RESERVATIONS[reservation_id] = reservation
insert_reservation(store, reservation) ==
    DictSet(DictSet(store,
                    _booking_key(reservation.restaurant, reservation.date,
                                 reservation.time, reservation.table_id),
                    reservation),
            reservation.reservation_id, reservation)

\* mutant: the details name the restaurant by its key
confirmed_response_with_key(reservation, date, time, guests, table) ==
    [status |-> "confirmed",
     reservation_id |-> reservation.reservation_id,
     details |-> [restaurant |-> reservation.restaurant,
                  address |-> reservation.address,
                  date |-> date,
                  time |-> time,
                  guests |-> guests,
                  table |-> table.id]]

confirmed_response(reservation, date, time, guests, table) ==
    [status |-> "confirmed",
     reservation_id |-> reservation.reservation_id,
     details |-> [restaurant |-> reservation.restaurant_name,
                  address |-> reservation.address,
                  date |-> date,
                  time |-> time,
                  guests |-> guests,
                  table |-> table.id]]

\* mutant: the booking checks availability without the party's size
booking_availability_any_party(store, restaurant, date, time, guests) ==
    _check_availability_logic(store, restaurant, date, time, 0)

\* the availability make_reservation decides on
booking_availability(store, restaurant, date, time, guests) ==
    _check_availability_logic(store, restaurant, date, time, guests)

\* an exception leaves the function: nothing is returned, the store is as it was
raised(store, exception) == [store |-> store, response |-> [exception |-> exception]]

\* availability["tables"][0] raises KeyError without the key and IndexError
\* on an empty list; RESTAURANTS[restaurant] raises KeyError for a key that is
\* not in the catalog; an exception of the availability check propagates.
make_reservation(store, restaurant, date, time, guests, name, phone, suffix) ==
    LET availability == booking_availability(store, restaurant, date, time, guests)
    IN  IF "exception" \in DOMAIN availability
        THEN raised(store, availability.exception)
        ELSE IF ~availability.available
        THEN [store |-> store,
              response |-> [status |-> "failed",
                            error |-> <<"No tables available at this time">>]]
        ELSE IF "tables" \notin DOMAIN availability
        THEN raised(store, "KeyError")
        ELSE IF availability.tables = <<>>
        THEN raised(store, "IndexError")
        ELSE IF restaurant \notin DOMAIN RESTAURANTS
        THEN raised(store, "KeyError")
        ELSE LET table == first_table(availability)
                 reservation ==
                     new_reservation(new_reservation_id(date, suffix), restaurant,
                                     date, time, guests, table, name, phone)
             IN  [store |-> insert_reservation(store, reservation),
                  response |-> confirmed_response(reservation, date, time, guests, table)]

\* mutant: only the booking-key entry is removed
remove_booking_key_only(store, key, reservation_id) == DictPop(store, key)

\* mutant: only the entry looked up is removed
remove_id_only(store, key, reservation_id) == DictPop(store, reservation_id)

\* RESERVATIONS.pop(key, None)
\* RESERVATIONS.pop(reservation_id, None)
remove_reservation(store, key, reservation_id) ==
    DictPop(DictPop(store, key), reservation_id)

cancel_reservation(store, reservation_id) ==
    IF ~DictHas(store, reservation_id)
    THEN [store |-> store,
          response |-> [status |-> "failed",
                        error |-> <<"Reservation '", reservation_id, "' not found">>]]
    ELSE LET reservation == DictGet(store, reservation_id)
             key == _booking_key(reservation.restaurant, reservation.date,
                                 reservation.time, reservation.table_id)
         IN  [store |-> remove_reservation(store, key, reservation_id),
              response |-> [status |-> "cancelled",
                            message |-> <<"Reservation ", reservation_id,
                                          " successfully cancelled">>]]

list_reservations(store, phone) ==
    LET reservations == SelectSeq(DictValues(store), LAMBDA res : res.phone = phone)
    IN  [count |-> Len(reservations), reservations |-> reservations]

\* ----------------------------------------------- SimpleWindowMemory --
\* src/memory.py.  A message is its class and its content; the object is its
\* fields k and messages, and a method that assigns a field returns the
\* object after the call.

\* s[start:]
SliceFrom(s, start) ==
    LET first == IF start < 0
                 THEN (IF Len(s) + start < 0 THEN 0 ELSE Len(s) + start)
                 ELSE (IF start > Len(s) THEN Len(s) ELSE start)
    IN  SubSeq(s, first + 1, Len(s))

\* __init__
new_memory(k) == [k |-> k, messages |-> <<>>]

_trim(self) ==
    IF Len(self.messages) > self.k * 2
    THEN [self EXCEPT !.messages = SliceFrom(self.messages, -(self.k * 2))]
    ELSE self

add_user(self, content) ==
    _trim([self EXCEPT !.messages = Append(@, [type |-> "human", content |-> content])])

add_ai(self, content) ==
    _trim([self EXCEPT !.messages = Append(@, [type |-> "ai", content |-> content])])

clear(self) == [self EXCEPT !.messages = <<>>]

\* ---------------------------------------------------- conversations --
\* src/backend/db.py and src/backend/api.py.  The database is its
\* conversations rows (id, user_id), its messages rows (conversation_id,
\* role), the AUTOINCREMENT counter of the conversations table, and whether
\* the SQLite build enforces foreign keys (get_conn sets no pragma, so ON
\* DELETE CASCADE acts only where the build turns them on).  Titles and
\* timestamps decide nothing here and are left out.  An Optional value is a
\* sequence of none or one element.

empty_db(foreign_keys) ==
    [conversations |-> <<>>, messages |-> <<>>, seq |-> 0, foreign_keys |-> foreign_keys]

message_count(db, conversation_id) ==
    Cardinality({i \in DOMAIN db.messages : db.messages[i].conversation_id = conversation_id})

\* LEFT JOIN messages ... HAVING COUNT(m.id) = 0 ORDER BY c.id DESC LIMIT 1
conversation_find_empty(db, user_id) ==
    LET empty == {c \in {db.conversations[i] : i \in DOMAIN db.conversations} :
                     c.user_id = user_id /\ message_count(db, c.id) = 0}
    IN  IF empty = {} THEN <<>>
        ELSE << CHOOSE c \in empty : \A d \in empty : d.id <= c.id >>

\* mutant: the row is inserted whether or not an empty conversation exists
conversation_create_unchecked(db, user_id, allow_if_empty_exists) ==
    LET row == [id |-> db.seq + 1, user_id |-> user_id]
    IN  [db |-> [db EXCEPT !.conversations = Append(@, row), !.seq = row.id],
         row |-> <<row>>]

conversation_create(db, user_id, allow_if_empty_exists) ==
    IF ~allow_if_empty_exists /\ conversation_find_empty(db, user_id) # <<>>
    THEN [db |-> db, row |-> <<>>]
    ELSE LET row == [id |-> db.seq + 1, user_id |-> user_id]
         IN  [db |-> [db EXCEPT !.conversations = Append(@, row), !.seq = row.id],
              row |-> <<row>>]

conversation_get(db, conversation_id, user_id) ==
    SelectSeq(db.conversations,
              LAMBDA c : c.id = conversation_id /\ c.user_id = user_id)

conversation_delete(db, conversation_id, user_id) ==
    IF conversation_get(db, conversation_id, user_id) = <<>>
    THEN [db |-> db, deleted |-> FALSE]
    ELSE [db |-> [db EXCEPT
                    !.conversations = SelectSeq(@, LAMBDA c : c.id # conversation_id),
                    !.messages =
                        IF db.foreign_keys
                        THEN SelectSeq(@, LAMBDA m : m.conversation_id # conversation_id)
                        ELSE @],
          deleted |-> TRUE]

message_add(db, conversation_id, role) ==
    [db EXCEPT !.messages = Append(@, [conversation_id |-> conversation_id, role |-> role])]

\* POST /conversations
create_conversation(db, user_id) ==
    LET created == conversation_create(db, user_id, FALSE)
        c == IF created.row = <<>> THEN conversation_find_empty(db, user_id)
             ELSE created.row
    IN  IF c = <<>>
        THEN [db |-> created.db, response |-> [status |-> 500]]
        ELSE [db |-> created.db, response |-> [status |-> 200, id |-> c[1].id]]

\* status 404 stands for the HTTPException the function raises
_ensure_conversation(db, conversation_id, user_id) ==
    IF conversation_id # <<>>
    THEN IF conversation_get(db, conversation_id[1], user_id) = <<>>
         THEN [db |-> db, status |-> 404]
         ELSE [db |-> db, status |-> 200, id |-> conversation_id[1]]
    ELSE LET empty == conversation_find_empty(db, user_id)
         IN  IF empty # <<>>
             THEN [db |-> db, status |-> 200, id |-> empty[1].id]
             ELSE LET c == conversation_create(db, user_id, TRUE)
                  IN  [db |-> c.db, status |-> 200, id |-> c.row[1].id]

\* POST /chat/ask.  limited: _check_usage_limit found the daily limit
\* reached; raises: answer_query raised.
chat_ask(db, user_id, conversation_id, limited, raises) ==
    IF limited
    THEN [db |-> db, response |-> [status |-> 429]]
    ELSE LET ensured == _ensure_conversation(db, conversation_id, user_id)
         IN  IF ensured.status = 404
             THEN [db |-> db, response |-> [status |-> 404]]
             ELSE IF raises
             THEN [db |-> ensured.db, response |-> [status |-> 500]]
             ELSE [db |-> message_add(message_add(ensured.db, ensured.id, "user"),
                                      ensured.id, "assistant"),
                   response |-> [status |-> 200, conversation_id |-> ensured.id]]

\* DELETE /conversations/{conversation_id}
delete_conversation(db, conversation_id, user_id) ==
    LET result == conversation_delete(db, conversation_id, user_id)
    IN  [db |-> result.db,
         response |-> [status |-> IF result.deleted THEN 200 ELSE 404]]

\* ----------------------------------------------------- refresh tokens --
\* src/backend/db.py and src/backend/api.py.  The refresh_tokens table is
\* the sequence of its rows; a jti, a fresh uuid4 in the code, is the number
\* of the row.  expired stands for expires_at <= now, which is also when
\* jwt.decode rejects the token.  Each function opens its own connection and
\* commits on leaving it (get_conn): it is one transaction.

\* create_refresh_token: the jti of the next token
new_jti(rows) == Len(rows) + 1

refresh_token_store(rows, jti, user_id) ==
    Append(rows, [jti |-> jti, user_id |-> user_id, revoked |-> FALSE, expired |-> FALSE])

refresh_token_is_valid(rows, jti) ==
    \E i \in DOMAIN rows : rows[i].jti = jti /\ ~rows[i].revoked /\ ~rows[i].expired

refresh_token_revoke(rows, jti) ==
    [i \in DOMAIN rows |-> IF rows[i].jti = jti THEN [rows[i] EXCEPT !.revoked = TRUE]
                                                ELSE rows[i]]

\* decode_refresh_token raises 401 for a token past its exp
decode_refresh_token_raises(rows, jti) ==
    \E i \in DOMAIN rows : rows[i].jti = jti /\ rows[i].expired

\* ------------------------------------------------------ state machine --

\* the callers of the two invocations that run at once
Callers == {1, 2}

\* no invocation in flight
NoRace ==
    [pc |-> [c \in Callers |-> "idle"],
     args |-> [c \in Callers |-> <<>>],
     reservation |-> [c \in Callers |-> <<>>],
     response |-> [c \in Callers |-> [status |-> "none"]],
     overlap |-> FALSE]

\* the server processes that share the database file
Workers == {1, 2}

\* init_db on a new file: the table is empty, no request is in flight
NoAuth ==
    [refresh_tokens |-> <<>>,
     pc |-> [w \in Workers |-> "idle"],
     presented |-> [w \in Workers |-> 0],
     response |-> [w \in Workers |-> [status |-> 0]],
     granted |-> {},
     logged_out |-> {}]

\* init_db on a new file: the tables are empty and nothing was requested
NoChat == [db |-> empty_db(FALSE), call |-> [op |-> "none"], response |-> [status |-> 0]]

\* RESERVATIONS = {} at import
Init ==
    /\ RESERVATIONS = <<>>
    /\ call = [op |-> "none"]
    /\ response = [status |-> "none"]
    /\ cancelled = {}
    /\ writes = 0
    /\ race = NoRace
    /\ memory = new_memory(10)
    /\ added = <<>>
    /\ auth = NoAuth
    /\ chat = NoChat

\* mutant: a check that finds a table holds it, storing a placeholder
\* reservation for the first table it found
CheckAvailability_holding ==
    \E a \in CheckArgs :
        LET found == check_availability(RESERVATIONS, a.restaurant, a.date, a.time, a.guests)
        IN  /\ call' = [op |-> "check_availability", restaurant |-> a.restaurant,
                        date |-> a.date, time |-> a.time, guests |-> a.guests]
            /\ response' = found
            /\ RESERVATIONS' =
                   IF found.available
                   THEN insert_reservation(RESERVATIONS,
                            new_reservation(<<"H", "O", "L", "D">>, a.restaurant, a.date,
                                            a.time, a.guests, first_table(found), "", ""))
                   ELSE RESERVATIONS
            /\ UNCHANGED <<cancelled, writes, race, memory, added, auth, chat>>

CheckAvailability ==
    \E a \in CheckArgs :
        /\ call' = [op |-> "check_availability", restaurant |-> a.restaurant,
                    date |-> a.date, time |-> a.time, guests |-> a.guests]
        /\ response' = check_availability(RESERVATIONS, a.restaurant, a.date, a.time, a.guests)
        /\ UNCHANGED <<RESERVATIONS, cancelled, writes, race, memory, added, auth, chat>>

MakeReservation ==
    /\ writes < MaxWrites
    /\ \E a \in BookingArgs, suffix \in HexSuffixes :
        LET result == make_reservation(RESERVATIONS, a.restaurant, a.date, a.time, a.guests,
                                       a.name, a.phone, suffix)
        IN  /\ call' = [op |-> "make_reservation", restaurant |-> a.restaurant,
                        date |-> a.date, time |-> a.time, guests |-> a.guests,
                        name |-> a.name, phone |-> a.phone]
            /\ RESERVATIONS' = result.store
            /\ response' = result.response
            /\ cancelled' = {}
            /\ writes' = IF result.store # RESERVATIONS THEN writes + 1 ELSE writes
            /\ UNCHANGED <<race, memory, added, auth, chat>>

CancelReservation ==
    /\ writes < MaxWrites
    /\ \E reservation_id \in CancelArgs :
        LET result == cancel_reservation(RESERVATIONS, reservation_id)
        IN  /\ call' = [op |-> "cancel_reservation", reservation_id |-> reservation_id]
            /\ RESERVATIONS' = result.store
            /\ response' = result.response
            /\ cancelled' = IF result.response.status = "cancelled"
                            THEN cancelled \cup {reservation_id}
                            ELSE cancelled
            /\ writes' = IF result.store # RESERVATIONS THEN writes + 1 ELSE writes
            /\ UNCHANGED <<race, memory, added, auth, chat>>

ListReservations ==
    \E phone \in PhoneArgs :
        /\ call' = [op |-> "list_reservations", phone |-> phone]
        /\ response' = list_reservations(RESERVATIONS, phone)
        /\ UNCHANGED <<RESERVATIONS, cancelled, writes, race, memory, added, auth, chat>>

Next ==
    \/ CheckAvailability
    \/ MakeReservation
    \/ CancelReservation
    \/ ListReservations

Spec == Init /\ [][Next]_vars

\* ------------------------------------------- two invocations at once --
\* make_reservation is not atomic: between its availability check (line 78)
\* and its two stores (lines 112 and 113) another invocation can run.  Each
\* caller makes one call; the store they start from is empty or holds one
\* earlier booking.

\* the stores one completed make_reservation leaves
StoresAfterOneBooking ==
    {make_reservation(<<>>, a.restaurant, a.date, a.time, a.guests, a.name, a.phone,
                      suffix).store : a \in BookingArgs, suffix \in HexSuffixes}

RaceInit ==
    /\ RESERVATIONS \in StoresAfterOneBooking
    /\ call = [op |-> "none"]
    /\ response = [status |-> "none"]
    /\ cancelled = {}
    /\ writes = 0
    /\ race = NoRace
    /\ memory = new_memory(10)
    /\ added = <<>>
    /\ auth = NoAuth
    /\ chat = NoChat

\* lines 78-110: the check, the choice of the table and of the id; everything
\* the call computes before it writes.  A call that is refused returns here.
RaceCheck(c) ==
    /\ race.pc[c] = "idle"
    /\ \E a \in BookingArgs, suffix \in HexSuffixes :
        LET result == make_reservation(RESERVATIONS, a.restaurant, a.date, a.time,
                                       a.guests, a.name, a.phone, suffix)
            refused == \/ "exception" \in DOMAIN result.response
                       \/ result.response.status # "confirmed"
        IN  race' = [race EXCEPT
                        !.pc[c] = IF refused THEN "done" ELSE "checked",
                        !.args[c] = a,
                        !.reservation[c] =
                            IF refused THEN <<>>
                            ELSE DictGet(result.store, result.response.reservation_id),
                        !.response[c] =
                            IF refused THEN result.response ELSE [status |-> "none"],
                        !.overlap = \/ race.overlap
                                    \/ \E other \in Callers \ {c} :
                                           race.pc[other] = "checked"]
    /\ UNCHANGED <<RESERVATIONS, call, response, cancelled, writes, memory, added, auth, chat>>

\* mutant: insert-if-absent, the call is refused when the booking key is taken
RaceInsertKey_if_absent(c) ==
    /\ race.pc[c] = "checked"
    /\ LET reservation == race.reservation[c]
           key == _booking_key(reservation.restaurant, reservation.date,
                               reservation.time, reservation.table_id)
       IN  IF DictHas(RESERVATIONS, key)
           THEN /\ race' = [race EXCEPT
                               !.pc[c] = "done",
                               !.response[c] =
                                   [status |-> "failed",
                                    error |-> <<"No tables available at this time">>]]
                /\ UNCHANGED RESERVATIONS
           ELSE /\ RESERVATIONS' = DictSet(RESERVATIONS, key, reservation)
                /\ race' = [race EXCEPT !.pc[c] = "keyed"]
    /\ UNCHANGED <<call, response, cancelled, writes, memory, added, auth, chat>>

\* line 112: RESERVATIONS[_booking_key(...)] = reservation
RaceInsertKey(c) ==
    /\ race.pc[c] = "checked"
    /\ LET reservation == race.reservation[c]
       IN  RESERVATIONS' =
               DictSet(RESERVATIONS,
                       _booking_key(reservation.restaurant, reservation.date,
                                    reservation.time, reservation.table_id),
                       reservation)
    /\ race' = [race EXCEPT !.pc[c] = "keyed"]
    /\ UNCHANGED <<call, response, cancelled, writes, memory, added, auth, chat>>

\* lines 113-131: RESERVATIONS[reservation_id] = reservation, and the return
RaceInsertId(c) ==
    /\ race.pc[c] = "keyed"
    /\ LET reservation == race.reservation[c]
           a == race.args[c]
           table == [id |-> reservation.table_id]
       IN  /\ RESERVATIONS' = DictSet(RESERVATIONS, reservation.reservation_id, reservation)
           /\ race' = [race EXCEPT
                          !.pc[c] = "done",
                          !.response[c] =
                              confirmed_response(reservation, a.date, a.time, a.guests,
                                                 table)]
    /\ UNCHANGED <<call, response, cancelled, writes, memory, added, auth, chat>>

RaceNext ==
    \E c \in Callers : RaceCheck(c) \/ RaceInsertKey(c) \/ RaceInsertId(c)

SpecRace == RaceInit /\ [][RaceNext]_vars

\* ------------------------------------------- after a cancellation --
\* The same tools, started from the states one booking followed by one
\* cancellation leaves; writes counts the calls that change the store from
\* there on.

AfterCancelInit ==
    \E store \in StoresAfterOneBooking :
        \E reservation_id \in DictKeys(store) :
            LET result == cancel_reservation(store, reservation_id)
            IN  /\ RESERVATIONS = result.store
                /\ call = [op |-> "cancel_reservation", reservation_id |-> reservation_id]
                /\ response = result.response
                /\ cancelled = {reservation_id}
                /\ writes = 0
                /\ race = NoRace
                /\ memory = new_memory(10)
                /\ added = <<>>
                /\ auth = NoAuth
                /\ chat = NoChat

SpecAfterCancel == AfterCancelInit /\ [][Next]_vars

\* ------------------------------------------- the window memory alone --
\* One SimpleWindowMemory(k) object and the calls of its methods, in any
\* order.

\* the content arguments of add_user and add_ai
Contents == {"hi", "ok"}

MemoryInit ==
    /\ RESERVATIONS = <<>>
    /\ call = [op |-> "none"]
    /\ response = [status |-> "none"]
    /\ cancelled = {}
    /\ writes = 0
    /\ race = NoRace
    /\ memory \in {new_memory(k) : k \in 0..MaxK}
    /\ added = <<>>
    /\ auth = NoAuth
    /\ chat = NoChat

AddUser ==
    /\ Len(added) < MaxAdds
    /\ \E content \in Contents :
        /\ memory' = add_user(memory, content)
        /\ added' = Append(added, [type |-> "human", content |-> content])
    /\ UNCHANGED <<RESERVATIONS, call, response, cancelled, writes, race, auth, chat>>

AddAi ==
    /\ Len(added) < MaxAdds
    /\ \E content \in Contents :
        /\ memory' = add_ai(memory, content)
        /\ added' = Append(added, [type |-> "ai", content |-> content])
    /\ UNCHANGED <<RESERVATIONS, call, response, cancelled, writes, race, auth, chat>>

Clear ==
    /\ memory' = clear(memory)
    /\ added' = <<>>
    /\ UNCHANGED <<RESERVATIONS, call, response, cancelled, writes, race, auth, chat>>

MemoryNext == AddUser \/ AddAi \/ Clear

SpecMemory == MemoryInit /\ [][MemoryNext]_vars

\* ------------------------------------------- conversation requests --
\* The conversation endpoints, one request at a time.

Users == {1, 2}

ConversationIds == 1..MaxConversations

ChatInit ==
    /\ RESERVATIONS = <<>>
    /\ call = [op |-> "none"]
    /\ response = [status |-> "none"]
    /\ cancelled = {}
    /\ writes = 0
    /\ race = NoRace
    /\ memory = new_memory(10)
    /\ added = <<>>
    /\ auth = NoAuth
    /\ \E foreign_keys \in BOOLEAN :
           chat = [db |-> empty_db(foreign_keys), call |-> [op |-> "none"],
                   response |-> [status |-> 0]]

CreateConversation ==
    /\ chat.db.seq < MaxConversations
    /\ \E user_id \in Users :
        LET result == create_conversation(chat.db, user_id)
        IN  chat' = [db |-> result.db,
                     call |-> [op |-> "create_conversation", user_id |-> user_id],
                     response |-> result.response]
    /\ UNCHANGED <<RESERVATIONS, call, response, cancelled, writes, race, memory, added, auth>>

ChatAsk ==
    /\ chat.db.seq < MaxConversations
    /\ Len(chat.db.messages) + 2 <= MaxMessages
    /\ \E user_id \in Users, limited \in BOOLEAN, raises \in BOOLEAN,
          conversation_id \in {<<>>} \cup {<<id>> : id \in ConversationIds} :
        LET result == chat_ask(chat.db, user_id, conversation_id, limited, raises)
        IN  chat' = [db |-> result.db,
                     call |-> [op |-> "chat_ask", user_id |-> user_id,
                               conversation_id |-> conversation_id],
                     response |-> result.response]
    /\ UNCHANGED <<RESERVATIONS, call, response, cancelled, writes, race, memory, added, auth>>

DeleteConversation ==
    /\ \E user_id \in Users, conversation_id \in ConversationIds :
        LET result == delete_conversation(chat.db, conversation_id, user_id)
        IN  chat' = [db |-> result.db,
                     call |-> [op |-> "delete_conversation", user_id |-> user_id,
                               conversation_id |-> conversation_id],
                     response |-> result.response]
    /\ UNCHANGED <<RESERVATIONS, call, response, cancelled, writes, race, memory, added, auth>>

ChatNext == CreateConversation \/ ChatAsk \/ DeleteConversation

SpecChat == ChatInit /\ [][ChatNext]_vars

\* ------------------------------------------------- /auth requests --
\* auth_refresh and auth_logout are async functions with no await in their
\* body: one server process runs such a body to its end before it serves
\* another request.  Nothing in the code ties the application to one
\* process; processes started on the same database file (uvicorn --workers)
\* take turns between the transactions of their requests.  A request
\* presents a token the server issued.

AuthInit ==
    /\ RESERVATIONS = <<>>
    /\ call = [op |-> "none"]
    /\ response = [status |-> "none"]
    /\ cancelled = {}
    /\ writes = 0
    /\ race = NoRace
    /\ memory = new_memory(10)
    /\ added = <<>>
    /\ auth = NoAuth
    /\ chat = NoChat

\* the tokens issued and about to be issued
TokensInUse ==
    Len(auth.refresh_tokens) + Cardinality({w \in Workers : auth.pc[w] # "idle"})

\* auth_google_callback, after the exchange with Google: a token for the user
Login(w) ==
    /\ auth.pc[w] = "idle"
    /\ TokensInUse < MaxTokens
    /\ \E user_id \in Users :
        LET jti == new_jti(auth.refresh_tokens)
        IN  auth' = [auth EXCEPT
                        !.refresh_tokens = refresh_token_store(@, jti, user_id),
                        !.response[w] = [status |-> 307, jti |-> jti]]
    /\ UNCHANGED <<RESERVATIONS, call, response, cancelled, writes, race, memory, added, chat>>

\* auth_refresh, lines 139-147: decode the cookie, refresh_token_is_valid
RefreshCheck(w) ==
    /\ auth.pc[w] = "idle"
    /\ TokensInUse < MaxTokens
    /\ \E i \in DOMAIN auth.refresh_tokens :
        LET jti == auth.refresh_tokens[i].jti
        IN  IF \/ decode_refresh_token_raises(auth.refresh_tokens, jti)
               \/ ~refresh_token_is_valid(auth.refresh_tokens, jti)
            THEN auth' = [auth EXCEPT !.presented[w] = jti,
                                      !.response[w] = [status |-> 401]]
            ELSE auth' = [auth EXCEPT !.pc[w] = "validated",
                                      !.presented[w] = jti,
                                      !.response[w] = [status |-> 0]]
    /\ UNCHANGED <<RESERVATIONS, call, response, cancelled, writes, race, memory, added, chat>>

\* auth_refresh, lines 150-153: refresh_token_revoke, user_get_by_id (no
\* code deletes a user, the row is found)
RefreshRevoke(w) ==
    /\ auth.pc[w] = "validated"
    /\ auth' = [auth EXCEPT
                   !.refresh_tokens = refresh_token_revoke(@, auth.presented[w]),
                   !.pc[w] = "revoked"]
    /\ UNCHANGED <<RESERVATIONS, call, response, cancelled, writes, race, memory, added, chat>>

\* auth_refresh, lines 155-162: the new tokens, refresh_token_store, the
\* response; granted keeps which token bought which
RefreshStore(w) ==
    /\ auth.pc[w] = "revoked"
    /\ LET jti == auth.presented[w]
           user_id == auth.refresh_tokens[jti].user_id
           new == new_jti(auth.refresh_tokens)
       IN  auth' = [auth EXCEPT
                       !.refresh_tokens = refresh_token_store(@, new, user_id),
                       !.pc[w] = "idle",
                       !.response[w] = [status |-> 200, jti |-> new],
                       !.granted = @ \cup {[presented |-> jti, new |-> new]}]
    /\ UNCHANGED <<RESERVATIONS, call, response, cancelled, writes, race, memory, added, chat>>

\* auth_logout of an authenticated user: the token of the cookie is revoked
\* unless decode_refresh_token raises
Logout(w) ==
    /\ auth.pc[w] = "idle"
    /\ \E i \in DOMAIN auth.refresh_tokens :
        LET jti == auth.refresh_tokens[i].jti
        IN  IF decode_refresh_token_raises(auth.refresh_tokens, jti)
            THEN auth' = [auth EXCEPT !.presented[w] = jti,
                                      !.response[w] = [status |-> 200]]
            ELSE auth' = [auth EXCEPT
                             !.refresh_tokens = refresh_token_revoke(@, jti),
                             !.presented[w] = jti,
                             !.response[w] = [status |-> 200],
                             !.logged_out = @ \cup {jti}]
    /\ UNCHANGED <<RESERVATIONS, call, response, cancelled, writes, race, memory, added, chat>>

\* time passes the exp of a token
TokenExpires ==
    /\ \E i \in DOMAIN auth.refresh_tokens :
        /\ ~auth.refresh_tokens[i].expired
        /\ auth' = [auth EXCEPT !.refresh_tokens[i].expired = TRUE]
    /\ UNCHANGED <<RESERVATIONS, call, response, cancelled, writes, race, memory, added, chat>>

AuthNext ==
    \/ \E w \in Workers :
           Login(w) \/ RefreshCheck(w) \/ RefreshRevoke(w) \/ RefreshStore(w) \/ Logout(w)
    \/ TokenExpires

SpecAuth == AuthInit /\ [][AuthNext]_vars

\* ------------------------------------------------------------ claims --

Known(restaurant) == restaurant \in DOMAIN RESTAURANTS

IsMake == call.op = "make_reservation"

Confirmed == IsMake /\ response.status = "confirmed"

\* the reservations held in the store under their own reservation id
Active(store) ==
    {store[i].v : i \in {j \in DOMAIN store : store[j].k = store[j].v.reservation_id}}

Slot(r) == <<r.restaurant, r.date, r.time, r.table_id>>

TableIds(tables) == {tables[i].id : i \in DOMAIN tables}

\* table has enough seats and its booking key is not a key of the store
Qualifies(store, restaurant, date, time, guests, table) ==
    /\ table.seats >= guests
    /\ _booking_key(restaurant, date, time, table.id) \notin DictKeys(store)

\* the id of the first table, in catalog order, that qualifies
FirstFit(store, restaurant, date, time, guests) ==
    LET tables == RESTAURANTS[restaurant].tables
        first == CHOOSE i \in DOMAIN tables :
                     /\ Qualifies(store, restaurant, date, time, guests, tables[i])
                     /\ \A j \in 1..(i - 1) :
                            ~Qualifies(store, restaurant, date, time, guests, tables[j])
    IN  tables[first].id

NoTableQualifies(store, restaurant, date, time, guests) ==
    \A i \in DOMAIN RESTAURANTS[restaurant].tables :
        ~Qualifies(store, restaurant, date, time, guests, RESTAURANTS[restaurant].tables[i])

\* C1: no two active reservations (held in the store under their reservation
\* id) share the same (restaurant, date, time, table id).
C1_NoDoubleBooking ==
    \A r1, r2 \in Active(RESERVATIONS) : Slot(r1) = Slot(r2) => r1 = r2

\* C2: for a known restaurant, the tables check_availability returns are the
\* restaurant's tables with seats >= guests, minus those whose booking key is a
\* key of the store.
C2_AvailableIsCapacityMinusBooked ==
    (call.op = "check_availability" /\ Known(call.restaurant)) =>
        LET tables == RESTAURANTS[call.restaurant].tables
            all == {tables[i] : i \in DOMAIN tables}
        IN  {response.tables[i] : i \in DOMAIN response.tables}
              = {t \in all : t.seats >= call.guests}
                \ {t \in all : _booking_key(call.restaurant, call.date, call.time, t.id)
                                   \in DictKeys(RESERVATIONS)}

\* a check that leaves out a table for its size and another because it is booked
C2_Witness ==
    /\ call.op = "check_availability" /\ Known(call.restaurant)
    /\ response.available
    /\ \E i, j \in DOMAIN RESTAURANTS[call.restaurant].tables :
          LET tables == RESTAURANTS[call.restaurant].tables
          IN  /\ tables[i].seats < call.guests
              /\ tables[j].seats >= call.guests
              /\ tables[j].id \notin TableIds(response.tables)

\* C3: a cancel_reservation of an id whose cancellation already returned
\* "cancelled", with no make_reservation in between, returns "failed" with the
\* not-found error.
C3_SecondCancelFails ==
    [][ (call'.op = "cancel_reservation" /\ call'.reservation_id \in cancelled) =>
            response' = [status |-> "failed",
                         error |-> <<"Reservation '", call'.reservation_id,
                                     "' not found">>] ]_vars

\* the second cancellation of an id has returned
C3_Witness ==
    /\ call.op = "cancel_reservation"
    /\ call.reservation_id \in cancelled
    /\ response.status = "failed"

\* C4: right after a confirmed make_reservation, check_availability for the
\* same restaurant, date and time does not list the booked table, for any
\* guest count.
C4_BookedTableNotOffered ==
    Confirmed =>
        \A g \in GuestArgs :
            response.details.table \notin
                TableIds(check_availability(RESERVATIONS, call.restaurant, call.date,
                                            call.time, g).tables)

\* a booking after which the slot still has other tables on offer
C4_Witness ==
    /\ Confirmed
    /\ check_availability(RESERVATIONS, call.restaurant, call.date, call.time,
                          call.guests).available

\* C5: after cancel_reservation returns "cancelled" for a reservation holding
\* table T, check_availability for that reservation's restaurant, date and
\* time lists T for every guest count that T seats.
C5_CancelledTableOfferedAgain ==
    [][ (call'.op = "cancel_reservation" /\ response'.status = "cancelled") =>
            LET reservation == DictGet(RESERVATIONS, call'.reservation_id)
                rest == RESTAURANTS[reservation.restaurant]
            IN  \A g \in GuestArgs, i \in DOMAIN rest.tables :
                    (rest.tables[i].id = reservation.table_id /\ g <= rest.tables[i].seats)
                    => reservation.table_id \in
                           TableIds(check_availability(RESERVATIONS', reservation.restaurant,
                                                       reservation.date, reservation.time,
                                                       g).tables) ]_vars

\* a reservation was cancelled by its reservation id
C5_Witness ==
    /\ call.op = "cancel_reservation"
    /\ response.status = "cancelled"
    /\ SubSeq(call.reservation_id, 1, 4) = <<"R", "E", "S", "-">>

\* C6: list_reservations(phone) returns each active reservation with that
\* phone exactly once: count is their number and no reservation_id is listed
\* twice.
C6_ListedOnce ==
    call.op = "list_reservations" =>
        /\ response.count
             = Cardinality({r \in Active(RESERVATIONS) : r.phone = call.phone})
        /\ \A i, j \in DOMAIN response.reservations :
               response.reservations[i].reservation_id
                 = response.reservations[j].reservation_id => i = j

\* C7: a confirmed make_reservation allocates the first table, in catalog
\* order, that has seats >= guests and whose booking key is free.
C7_FirstFit ==
    [][ (call'.op = "make_reservation" /\ response'.status = "confirmed") =>
            /\ ~NoTableQualifies(RESERVATIONS, call'.restaurant, call'.date,
                                 call'.time, call'.guests)
            /\ response'.details.table
                 = FirstFit(RESERVATIONS, call'.restaurant, call'.date, call'.time,
                            call'.guests) ]_vars

\* a second booking for 2 guests at a bachevski slot got table 2 (4 seats)
C7_Witness ==
    /\ Confirmed
    /\ call.restaurant = BACHEVSKI /\ call.guests = 2
    /\ response.details.table = 2

\* C8: when no table of a known restaurant has enough seats and a free booking
\* key, make_reservation returns "failed" with "No tables available at this
\* time" and the store is unchanged.
C8_NoTableNoAllocation ==
    [][ ( /\ call'.op = "make_reservation"
          /\ Known(call'.restaurant)
          /\ NoTableQualifies(RESERVATIONS, call'.restaurant, call'.date,
                              call'.time, call'.guests) ) =>
            /\ response' = [status |-> "failed",
                            error |-> <<"No tables available at this time">>]
            /\ RESERVATIONS' = RESERVATIONS ]_vars

\* a booking was refused at a restaurant whose store holds reservations
C8_Witness ==
    /\ IsMake /\ Known(call.restaurant)
    /\ response.status = "failed"
    /\ \E r \in Active(RESERVATIONS) : r.restaurant = call.restaurant

\* C9: make_reservation returns "confirmed" exactly when check_availability
\* with the same arguments, on the store the call started from, says
\* available.
C9_BookingDecidesOnCurrentStore ==
    [][ call'.op = "make_reservation" =>
            ( response'.status = "confirmed"
              <=> check_availability(RESERVATIONS, call'.restaurant, call'.date,
                                     call'.time, call'.guests).available ) ]_vars

\* a booking was refused although a table of the restaurant seats the party:
\* the refusal came from the store
C9_Witness ==
    /\ IsMake /\ Known(call.restaurant)
    /\ response.status = "failed"
    /\ \E i \in DOMAIN RESTAURANTS[call.restaurant].tables :
           RESTAURANTS[call.restaurant].tables[i].seats >= call.guests

\* C10: a confirmed response names the id the reservation is stored under;
\* its details give the catalog name and address of the requested restaurant,
\* the call's date, time and guests, and the stored table id.
C10_ConfirmedResponse ==
    Confirmed =>
        /\ DictHas(RESERVATIONS, response.reservation_id)
        /\ LET stored == DictGet(RESERVATIONS, response.reservation_id)
           IN  /\ stored.reservation_id = response.reservation_id
               /\ stored.restaurant = call.restaurant
               /\ stored.date = call.date /\ stored.time = call.time
               /\ stored.guests = call.guests
               /\ stored.name = call.name /\ stored.phone = call.phone
               /\ response.details.table = stored.table_id
        /\ response.details.restaurant = RESTAURANTS[call.restaurant].name
        /\ response.details.address = RESTAURANTS[call.restaurant].address
        /\ response.details.date = call.date
        /\ response.details.time = call.time
        /\ response.details.guests = call.guests

\* a booking at kryivka was confirmed on its third table
C10_Witness ==
    /\ Confirmed
    /\ call.restaurant = KRYIVKA
    /\ response.details.table = 3

\* C11: check_availability with a restaurant key that is not in the catalog
\* returns available=false with an error naming the key (a response, not an
\* exception) and leaves the store unchanged.
C11_UnknownRestaurantCheck ==
    [][ (call'.op = "check_availability" /\ ~Known(call'.restaurant)) =>
            /\ response' = [available |-> FALSE,
                            error |-> <<"Restaurant '", call'.restaurant, "' not found">>]
            /\ RESERVATIONS' = RESERVATIONS ]_vars

\* an unknown restaurant was checked while the store held reservations
C11_Witness ==
    /\ call.op = "check_availability" /\ ~Known(call.restaurant)
    /\ "error" \in DOMAIN response
    /\ RESERVATIONS # <<>>

\* C12: make_reservation with a restaurant key that is not in the catalog
\* fails with the error check_availability gives for that key, which names
\* the restaurant.
C12_UnknownRestaurantSurfaced ==
    (IsMake /\ ~Known(call.restaurant)) =>
        /\ response.status = "failed"
        /\ response.error
             = check_availability(RESERVATIONS, call.restaurant, call.date, call.time,
                                  call.guests).error

\* the reservation ids of the active reservations
ActiveIds(store) == {r.reservation_id : r \in Active(store)}

\* C13: check_availability is read-only: whatever its arguments, the store is
\* the same after the call as before it (the catalog is never assigned).
C13_CheckIsReadOnly ==
    [][ call'.op = "check_availability" => RESERVATIONS' = RESERVATIONS ]_vars

\* a check found a free table while the store held reservations
C13_Witness ==
    /\ call.op = "check_availability" /\ Known(call.restaurant)
    /\ response.available
    /\ RESERVATIONS # <<>>

\* C14: cancel_reservation of a string that is not the reservation id of an
\* active reservation (a booking key included) returns "failed" with the
\* not-found error and leaves the store unchanged.
C14_CancelByIdOnly ==
    [][ ( /\ call'.op = "cancel_reservation"
          /\ call'.reservation_id \notin ActiveIds(RESERVATIONS) ) =>
            /\ response' = [status |-> "failed",
                            error |-> <<"Reservation '", call'.reservation_id,
                                        "' not found">>]
            /\ RESERVATIONS' = RESERVATIONS ]_vars

\* C15: no confirmed make_reservation returns a reservation id that an active
\* reservation already holds.
C15_FreshReservationId ==
    [][ (call'.op = "make_reservation" /\ response'.status = "confirmed") =>
            response'.reservation_id \notin ActiveIds(RESERVATIONS) ]_vars

\* C16: every booking-key entry of the store refers to a reservation that the
\* store also holds under that reservation's id.
C16_NoStaleSlot ==
    \A i \in DOMAIN RESERVATIONS :
        LET e == RESERVATIONS[i]
        IN  e.k # e.v.reservation_id =>
                /\ DictHas(RESERVATIONS, e.v.reservation_id)
                /\ DictGet(RESERVATIONS, e.v.reservation_id) = e.v

\* C17: every reservation-id entry of the store has its booking key in the
\* store, pointing to the same reservation.
C17_NoStaleId ==
    \A i \in DOMAIN RESERVATIONS :
        LET e == RESERVATIONS[i]
            key == _booking_key(e.v.restaurant, e.v.date, e.v.time, e.v.table_id)
        IN  e.k = e.v.reservation_id =>
                /\ DictHas(RESERVATIONS, key)
                /\ DictGet(RESERVATIONS, key) = e.v

\* C20: the record held under the id X of an active reservation stays in the
\* store, unchanged, across every call except a cancel_reservation(X) that
\* returns "cancelled".
C20_RecordKeptUntilCancelled ==
    [][ \A X \in ActiveIds(RESERVATIONS) :
            ~( /\ call'.op = "cancel_reservation"
               /\ call'.reservation_id = X
               /\ response'.status = "cancelled" ) =>
                /\ DictHas(RESERVATIONS', X)
                /\ DictGet(RESERVATIONS', X) = DictGet(RESERVATIONS, X) ]_vars

\* C19: no tool invocation ends in an exception: each returns a response
\* object of its tool's shape, and every failure response (a booking not
\* confirmed, a cancellation not done, a check of an unknown restaurant)
\* carries status "failed" or an error field.
C19_AlwaysAResponse ==
    /\ "exception" \notin DOMAIN response
    /\ call.op = "check_availability" =>
           /\ "available" \in DOMAIN response
           /\ ~Known(call.restaurant) => (~response.available /\ "error" \in DOMAIN response)
    /\ IsMake =>
           /\ response.status \in {"confirmed", "failed"}
           /\ response.status = "failed" => "error" \in DOMAIN response
    /\ call.op = "cancel_reservation" =>
           /\ response.status \in {"cancelled", "failed"}
           /\ response.status = "failed" => "error" \in DOMAIN response
    /\ call.op = "list_reservations" =>
           {"count", "reservations"} \subseteq DOMAIN response

\* a cancellation failed, with an error field, while the store held reservations
C19_Witness ==
    /\ call.op = "cancel_reservation"
    /\ response.status = "failed" /\ "error" \in DOMAIN response
    /\ RESERVATIONS # <<>>

\* the indexes of the tables of the catalog that seat the party
Seating(restaurant, guests) ==
    {i \in DOMAIN RESTAURANTS[restaurant].tables :
        RESTAURANTS[restaurant].tables[i].seats >= guests}

\* the parties have a first fitting table, and it is the same one
SameFirstTable(restaurant, guests1, guests2) ==
    /\ Seating(restaurant, guests1) # {}
    /\ Seating(restaurant, guests2) # {}
    /\ \E i \in Seating(restaurant, guests1) \cap Seating(restaurant, guests2) :
           \A j \in Seating(restaurant, guests1) \cup Seating(restaurant, guests2) : i <= j

\* both calls have returned, they were for the same restaurant, date and time
\* with guest counts whose first fitting table is the same, and both checked
\* before either wrote
RaceOverlapped ==
    /\ \A c \in Callers : race.pc[c] = "done"
    /\ race.overlap
    /\ race.args[1].restaurant = race.args[2].restaurant
    /\ race.args[1].date = race.args[2].date
    /\ race.args[1].time = race.args[2].time
    /\ race.args[1].restaurant \in DOMAIN RESTAURANTS
    /\ SameFirstTable(race.args[1].restaurant, race.args[1].guests, race.args[2].guests)

\* C18: two make_reservation invocations for the same slot whose checks both
\* run before either writes both return "confirmed" for the same table: one
\* booking key carries two confirmed reservations, and the store holds both
\* as active reservations of the same (restaurant, date, time, table id)
\* unless their ids collide as well.
C18_CheckThenBookRace ==
    RaceOverlapped =>
        /\ \A c \in Callers : race.response[c].status = "confirmed"
        /\ race.response[1].details.table = race.response[2].details.table
        /\ race.response[1].reservation_id # race.response[2].reservation_id =>
               \E r1, r2 \in Active(RESERVATIONS) : r1 # r2 /\ Slot(r1) = Slot(r2)

\* the race happened and the store holds two active reservations of one table
C18_Witness ==
    /\ RaceOverlapped
    /\ race.response[1].reservation_id # race.response[2].reservation_id
    /\ \E r1, r2 \in Active(RESERVATIONS) : r1 # r2 /\ Slot(r1) = Slot(r2)

\* every reservation the store holds, under a booking key or under an id
Held(store) == {store[i].v : i \in DOMAIN store}

\* C21: every reservation held in the store has a positive guest count.
C21_PositiveGuests ==
    \A r \in Held(RESERVATIONS) : r.guests > 0

\* C22: every reservation held in the store has a non-empty customer name and
\* a non-empty customer phone.
C22_ContactPresent ==
    \A r \in Held(RESERVATIONS) : r.name # "" /\ r.phone # ""

\* C23: for a known restaurant, check_availability lists every qualifying
\* table, the tables it lists are in the order the catalog declares them
\* (so none is listed twice), and available is true exactly when the list is
\* not empty.
C23_FullListInCatalogOrder ==
    (call.op = "check_availability" /\ Known(call.restaurant)) =>
        LET tables == RESTAURANTS[call.restaurant].tables
            listed == response.tables
        IN  /\ \A i \in DOMAIN tables :
                   Qualifies(RESERVATIONS, call.restaurant, call.date, call.time,
                             call.guests, tables[i])
                   <=> \E n \in DOMAIN listed : listed[n] = tables[i]
            /\ \A m, n \in DOMAIN listed :
                   m < n => \E i, j \in DOMAIN tables :
                                i < j /\ tables[i] = listed[m] /\ tables[j] = listed[n]
            /\ response.available <=> listed # <<>>

\* a check that listed several tables of a restaurant, and not all of them
C23_Witness ==
    /\ call.op = "check_availability" /\ Known(call.restaurant)
    /\ Len(response.tables) >= 2
    /\ Len(response.tables) < Len(RESTAURANTS[call.restaurant].tables)

HexChars == {"0", "1", "2", "3", "4", "5", "6", "7", "8", "9",
             "A", "B", "C", "D", "E", "F"}

\* s without its '-' characters, character by character
RECURSIVE WithoutDashes(_)
WithoutDashes(s) ==
    IF s = <<>> THEN <<>>
    ELSE IF Head(s) = "-" THEN WithoutDashes(Tail(s))
    ELSE <<Head(s)>> \o WithoutDashes(Tail(s))

\* C24: the reservation id a confirmed make_reservation returns is "RES-",
\* the date argument without its '-' characters, "-", and four characters
\* of 0-9A-F; the record stored under that id carries it as reservation_id.
C24_ReservationIdForm ==
    Confirmed =>
        LET id == response.reservation_id
            digits == WithoutDashes(call.date)
            n == Len(id)
        IN  /\ n = 4 + Len(digits) + 1 + 4
            /\ SubSeq(id, 1, 4) = <<"R", "E", "S", "-">>
            /\ SubSeq(id, 5, n - 5) = digits
            /\ id[n - 4] = "-"
            /\ \A i \in (n - 3)..n : id[i] \in HexChars
            /\ DictHas(RESERVATIONS, id)
            /\ DictGet(RESERVATIONS, id).reservation_id = id

\* a booking was confirmed for a date that holds a '-'
C24_Witness ==
    /\ Confirmed
    /\ \E i \in DOMAIN call.date : call.date[i] = "-"

\* C25: every reservation in the store names a restaurant of the catalog and
\* a table of that restaurant, and the table seats the party.
C25_ReservationFitsCatalog ==
    \A r \in Held(RESERVATIONS) :
        /\ Known(r.restaurant)
        /\ \E i \in DOMAIN RESTAURANTS[r.restaurant].tables :
               LET table == RESTAURANTS[r.restaurant].tables[i]
               IN  table.id = r.table_id /\ table.seats >= r.guests

\* the store holds a reservation on a table that is not the first of its
\* restaurant, every earlier one being too small for the party
C25_Witness ==
    \E r \in Held(RESERVATIONS) :
        /\ r.table_id > 1
        /\ \A i \in DOMAIN RESTAURANTS[r.restaurant].tables :
               LET table == RESTAURANTS[r.restaurant].tables[i]
               IN  table.id < r.table_id => table.seats < r.guests

BookingKeyOf(r) == _booking_key(r.restaurant, r.date, r.time, r.table_id)

\* the entry of the store under key is the reservation r
HeldUnder(store, key, r) == DictHas(store, key) /\ DictGet(store, key) = r

\* C26: cancel_reservation(X) affects only the reservation X names: every
\* other active reservation is still in the store, unchanged, under its
\* reservation id and under its booking key, and every booking key other
\* than the one of X's reservation is held or free as it was.
C26_CancelTouchesOnlyItsReservation ==
    [][ call'.op = "cancel_reservation" =>
            LET X == call'.reservation_id
                target == IF DictHas(RESERVATIONS, X)
                          THEN {DictGet(RESERVATIONS, X)} ELSE {}
            IN  /\ \A r \in Active(RESERVATIONS) \ target :
                       /\ HeldUnder(RESERVATIONS', r.reservation_id, r)
                       /\ HeldUnder(RESERVATIONS, BookingKeyOf(r), r)
                            => HeldUnder(RESERVATIONS', BookingKeyOf(r), r)
                /\ \A a \in CheckArgs :
                       Known(a.restaurant) =>
                           \A i \in DOMAIN RESTAURANTS[a.restaurant].tables :
                               LET key == _booking_key(a.restaurant, a.date, a.time,
                                              RESTAURANTS[a.restaurant].tables[i].id)
                               IN  (\A r \in target : BookingKeyOf(r) # key)
                                   => (DictHas(RESERVATIONS', key)
                                         <=> DictHas(RESERVATIONS, key)) ]_vars

\* C27: a confirmed make_reservation at (restaurant, date, time) on table T
\* changes what check_availability returns only for that restaurant, date
\* and time, and there only by removing T; for every other (restaurant,
\* date, time) the result is the same before and after.
C27_SlotsIndependent ==
    [][ (call'.op = "make_reservation" /\ response'.status = "confirmed") =>
            \A a \in CheckArgs :
                LET before == check_availability(RESERVATIONS, a.restaurant, a.date,
                                                 a.time, a.guests)
                    after == check_availability(RESERVATIONS', a.restaurant, a.date,
                                                a.time, a.guests)
                IN  IF <<a.restaurant, a.date, a.time>>
                         = <<call'.restaurant, call'.date, call'.time>>
                    THEN after.tables
                           = SelectSeq(before.tables,
                                       LAMBDA table : table.id # response'.details.table)
                    ELSE after = before ]_vars

\* the last n elements of s, all of s when it has fewer
LastOf(s, n) == [i \in 1..(IF Len(s) < n THEN Len(s) ELSE n) |->
                    s[i + (IF Len(s) < n THEN 0 ELSE Len(s) - n)]]

\* C30: a SimpleWindowMemory(k) holds at most 2*k messages, and they are the
\* most recently added messages since the last clear, in the order they were
\* added.
C30_SlidingWindow ==
    /\ Len(memory.messages) <= 2 * memory.k
    /\ memory.messages = LastOf(added, 2 * memory.k)

\* the conversations of the user that have no message
EmptyConversations(db, user_id) ==
    {c \in {db.conversations[i] : i \in DOMAIN db.conversations} :
        /\ c.user_id = user_id
        /\ \A i \in DOMAIN db.messages : db.messages[i].conversation_id # c.id}

\* C29: after any sequence of POST /conversations, /chat/ask and DELETE
\* /conversations/{id} requests, a user owns at most one conversation with no
\* message; a POST /conversations of a user who owns one returns it and
\* inserts no row.
C29_NoDuplicateEmptyConversation ==
    [][ /\ \A user_id \in Users :
               Cardinality(EmptyConversations(chat'.db, user_id)) <= 1
        /\ ( /\ chat'.call.op = "create_conversation"
             /\ EmptyConversations(chat.db, chat'.call.user_id) # {} ) =>
               /\ chat'.response.status = 200
               /\ \E c \in EmptyConversations(chat.db, chat'.call.user_id) :
                      chat'.response.id = c.id
               /\ chat'.db.conversations = chat.db.conversations ]_vars

\* POST /conversations returned a conversation that is older than another
\* one: it was not created by this request
C29_Witness ==
    /\ chat.call.op = "create_conversation"
    /\ chat.response.status = 200
    /\ \E i \in DOMAIN chat.db.conversations :
           chat.db.conversations[i].id > chat.response.id

\* the tokens that bought a new pair or were revoked by a logout
Spent(a) == {g.presented : g \in a.granted} \cup a.logged_out

\* C28: over any interleaving of POST /auth/refresh requests, at most one
\* request presenting a given refresh token obtains a new token pair, and no
\* request presenting a token that already bought a pair, or that a logout
\* revoked, passes the validity check.
C28_RefreshTokenSingleUse ==
    [][ /\ \A g1, g2 \in auth'.granted : g1.presented = g2.presented => g1 = g2
        /\ \A w \in Workers :
               (auth.pc[w] = "idle" /\ auth'.pc[w] = "validated")
               => auth'.presented[w] \notin Spent(auth) ]_vars

====
